---------------------------- MODULE Spec2Model ----------------------------
(***************************************************************************)
(* The native command bridge of AudioBook-Maker's desktop shell            *)
(* (frontend/src-tauri/src): the session state store of state.rs, the      *)
(* seven commands of commands.rs and their registration in lib.rs.         *)
(*                                                                         *)
(* Callers run concurrently (Tauri runs async commands on a multi-threaded *)
(* runtime), so every call is a small process: pc[p] is its position,      *)
(* call[p] the command it runs and, once it has returned, its result.      *)
(*                                                                         *)
(* A stored value spans several machine words (a String is pointer,        *)
(* length and capacity).  Each cell of AppState is kept as two words, each *)
(* holding the value it belongs to; a value v is stored as <<v, v>>, and a *)
(* cell whose words differ is a torn value.  A setter writes the words one *)
(* at a time while it holds the field's Mutex.                             *)
(***************************************************************************)
EXTENDS Integers, Sequences, FiniteSets, TLC

\* Number of concurrent callers.
NumProcs == 2

Procs == 1..NumProcs

\* ------------------------------------------------------------- values

DefaultUrl == "http://127.0.0.1:8765"
OtherUrl == "http://127.0.0.1:9000"
Urls == {DefaultUrl, OtherUrl}
Paths == {"/p/a.json", "/p/b.json"}

\* Project file contents (String) and audio payloads (Vec<u8>), as the bytes
\* written, and the format tags a caller may pass.
Contents == {"c1", "c2"}
AudioData == {"a1", "a2"}
Formats == {"mp3", "wav", "xyz"}

\* The inputs of the runs of all seven commands together.
AppPath == "/p/a.json"
AppContent == "c1"
AppAudio == "a1"
AppFormat == "mp3"

\* Option<String>
None == <<>>
Some(x) == <<x>>
OptPaths == {None} \cup {Some(x) : x \in Paths}
StorePaths == {None, Some(AppPath)}

\* ()
Unit == <<>>

\* The two-word representation of a stored value.
Repr(v) == <<v, v>>

Fields == {"backend_url", "backend_running", "last_project_path"}

\* ------------------------------------------------------------- state

\* A file the filesystem holds: NoFile, or File(bytes).
NoFile == <<>>
File(bytes) == <<bytes>>

\* What fs::write (File::create, then write_all) can come to: "ok"; the file
\* could not be opened ("open_failed": nothing changes); or it was created or
\* truncated and the write then failed ("write_failed").
FsOutcomes == {"ok", "open_failed", "write_failed"}

\* The answer to one HTTP GET: an error of the client (no connection, a
\* broken exchange) or a response with its status code.
HttpOutcomes ==
    {[kind |-> "error", status |-> 0]}
        \cup {[kind |-> "response", status |-> st] : st \in {200, 204, 299, 300, 404, 500}}

\* AppInfo: fixed when the crate is built.
AppInfo ==
    [version |-> "CARGO_PKG_VERSION", name |-> "CARGO_PKG_NAME",
     platform |-> "OS", arch |-> "ARCH"]

VARIABLES
    fs,          \* path -> the file at it
    stdout,      \* the last line printed (<<>> when none): <<path, format>>
    window,      \* the main window: [visible, focused]
    http,        \* caller -> the URL of its GET in flight ("" when none)
    app_state,   \* AppState: field -> the two words of its cell
    mutex,       \* field -> [owner: 0 or the caller holding the guard, poisoned]
    started,     \* field -> the values passed to its setter so far (the initial
                 \* value, which a getter may return in any case, is not kept)
    pc,          \* caller -> position
    fld,         \* caller -> the field its call is working on ("" when none)
    arg,         \* caller -> the value its setter is writing
    call         \* caller -> [cmd, status, val, out]: its current or last call

vars == <<fs, stdout, window, http, app_state, mutex, started, pc, fld, arg, call>>

\* All but the callers' own variables, and all but the session state store.
env == <<fs, stdout, window, http>>

NoArg == <<>>
NoCall == [cmd |-> "", status |-> "none", val |-> Unit]
Pending(c) == [cmd |-> c, status |-> "pending", val |-> Unit]
Returned(c, ok, v) == [cmd |-> c, status |-> IF ok THEN "Ok" ELSE "Err", val |-> v]

\* AppState::new
AppState_new ==
    [backend_url |-> Repr(DefaultUrl),
     backend_running |-> Repr(FALSE),
     last_project_path |-> Repr(None)]

Init ==
    /\ fs = [path \in Paths |-> NoFile]
    /\ stdout = <<>>
    /\ window = [visible |-> FALSE, focused |-> FALSE]
    /\ http = [p \in Procs |-> ""]
    /\ app_state = AppState_new
    /\ mutex = [f \in Fields |-> [owner |-> 0, poisoned |-> FALSE]]
    /\ started = [f \in Fields |-> {}]
    /\ pc = [p \in Procs |-> "idle"]
    /\ fld = [p \in Procs |-> ""]
    /\ arg = [p \in Procs |-> NoArg]
    /\ call = [p \in Procs |-> NoCall]

\* ------------------------------------------------------------- Mutex

\* A lock that excludes nobody.
Available_NoExclusion(f) == TRUE

\* Mutex::lock blocks until no other caller holds this field's guard.
Available(f) == mutex[f].owner = 0

\* A fallback that takes the value out of the poisoned mutex instead.
get_on_poison_Stale(f) == app_state[f]

\* What each getter yields when lock() returns Err (a poisoned mutex).
get_on_poison(f) ==
    CASE f = "backend_url" -> Repr(DefaultUrl)
      [] f = "backend_running" -> Repr(FALSE)
      [] f = "last_project_path" -> Repr(None)

\* The call of caller p returns v.
Finish(p, ok, v) ==
    /\ pc' = [pc EXCEPT ![p] = "idle"]
    /\ fld' = [fld EXCEPT ![p] = ""]
    /\ arg' = [arg EXCEPT ![p] = NoArg]
    /\ call' = [call EXCEPT ![p] = Returned(call[p].cmd, ok, v)]

\* ------------------------------------------------------------- state.rs

\* A setter is entered: `self.<field>.lock()` is the next step.
set_field(p, c, f, v) ==
    /\ pc[p] = "idle"
    /\ pc' = [pc EXCEPT ![p] = "set_lock"]
    /\ fld' = [fld EXCEPT ![p] = f]
    /\ arg' = [arg EXCEPT ![p] = v]
    /\ call' = [call EXCEPT ![p] = Pending(c)]
    /\ started' = [started EXCEPT ![f] = @ \cup ({Repr(v)} \ {AppState_new[f]})]
    /\ UNCHANGED <<app_state, mutex, env>>

\* A getter is entered.
get_field(p, c, f) ==
    /\ pc[p] = "idle"
    /\ pc' = [pc EXCEPT ![p] = "get_lock"]
    /\ fld' = [fld EXCEPT ![p] = f]
    /\ call' = [call EXCEPT ![p] = Pending(c)]
    /\ UNCHANGED <<app_state, mutex, started, arg, env>>

set_backend_url(p, url) == set_field(p, "set_backend_url", "backend_url", url)

get_backend_url(p) == get_field(p, "get_backend_url", "backend_url")

set_backend_running(p, running) ==
    set_field(p, "set_backend_running", "backend_running", running)

is_backend_running(p) == get_field(p, "is_backend_running", "backend_running")

set_last_project_path(p, path) ==
    set_field(p, "set_last_project_path", "last_project_path", path)

get_last_project_path(p) ==
    get_field(p, "get_last_project_path", "last_project_path")

\* `if let Ok(mut guard) = self.<field>.lock()` of a setter, and the first
\* word of `*guard = value`.  On a poisoned mutex lock() returns Err, the
\* body is skipped and the setter returns.
SetLock(p) ==
    /\ pc[p] = "set_lock"
    /\ Available(fld[p])
    /\ IF mutex[fld[p]].poisoned
       THEN /\ Finish(p, TRUE, Unit)
            /\ UNCHANGED <<app_state, mutex, started, env>>
       ELSE /\ mutex' = [mutex EXCEPT ![fld[p]].owner = p]
            /\ app_state' = [app_state EXCEPT ![fld[p]][1] = arg[p]]
            /\ pc' = [pc EXCEPT ![p] = "set_write"]
            /\ UNCHANGED <<started, fld, arg, call, env>>

\* The second word of `*guard = value`; the guard is dropped and the setter
\* (and with it save_project_file, when that is the caller) returns.
SetWrite(p) ==
    /\ pc[p] = "set_write"
    /\ app_state' = [app_state EXCEPT ![fld[p]][2] = arg[p]]
    /\ mutex' = [mutex EXCEPT ![fld[p]].owner = 0]
    /\ Finish(p, TRUE, Unit)
    /\ UNCHANGED <<started, env>>

\* A getter that returns its fallback whether or not it got the guard.
GetLock_Default(p) ==
    /\ pc[p] = "get_lock"
    /\ mutex[fld[p]].owner = 0
    /\ pc' = [pc EXCEPT ![p] = "idle"]
    /\ fld' = [fld EXCEPT ![p] = ""]
    /\ arg' = [arg EXCEPT ![p] = NoArg]
    /\ call' = [call EXCEPT ![p] =
                   Returned(call[p].cmd, TRUE,
                            CASE fld[p] = "backend_url" -> Repr(DefaultUrl)
                              [] fld[p] = "backend_running" -> Repr(FALSE)
                              [] fld[p] = "last_project_path" -> Repr(None))]
    /\ UNCHANGED <<app_state, mutex, started, fs, stdout, window, http>>

\* `self.<field>.lock()` of a getter.  With the guard the cell is copied out,
\* the guard is dropped and the copy returned; on a poisoned mutex the getter
\* returns its fallback.
GetLock(p) ==
    /\ pc[p] = "get_lock"
    /\ Available(fld[p])
    /\ Finish(p, TRUE, IF mutex[fld[p]].poisoned
                       THEN get_on_poison(fld[p])
                       ELSE app_state[fld[p]])
    /\ UNCHANGED <<app_state, mutex, started, env>>

\* The steps inside a setter or a getter.
StoreStep(p) ==
    \/ SetLock(p)
    \/ SetWrite(p)
    \/ GetLock(p)

\* ------------------------------------------------------------- commands.rs

\* The session state store and the callers' variables for it.
store == <<app_state, mutex, started>>

\* A command that runs in one step returns at once.
Respond(p, c, ok, v) ==
    /\ pc[p] = "idle"
    /\ call' = [call EXCEPT ![p] = Returned(c, ok, v)]
    /\ UNCHANGED <<pc, fld, arg>>

ping(p) ==
    /\ Respond(p, "ping", TRUE, "pong")
    /\ UNCHANGED <<store, env>>

\* The URL check_backend_health requests.
HealthUrl == "http://127.0.0.1:8765/health"

\* check_backend_health up to `.await`: the GET is issued.
check_backend_health(p) ==
    /\ pc[p] = "idle"
    /\ pc' = [pc EXCEPT ![p] = "http_wait"]
    /\ http' = [http EXCEPT ![p] = HealthUrl]
    /\ call' = [call EXCEPT ![p] = Pending("check_backend_health")]
    /\ UNCHANGED <<fs, stdout, window, store, fld, arg>>

\* StatusCode::is_success
is_success(status) == 200 <= status /\ status <= 299

\* A `match` that hands the client's error on to the caller.
health_result_Propagates(outcome) ==
    IF outcome.kind = "response"
    THEN [ok |-> TRUE, val |-> is_success(outcome.status)]
    ELSE [ok |-> FALSE, val |-> FALSE]

\* The `match` of check_backend_health on what the GET came to.
health_result(outcome) ==
    IF outcome.kind = "response"
    THEN [ok |-> TRUE, val |-> is_success(outcome.status)]
    ELSE [ok |-> TRUE, val |-> FALSE]

\* A health check that records what it found in backend_running.
check_backend_health_resume_Records(p, outcome) ==
    /\ pc[p] = "http_wait"
    /\ http' = [http EXCEPT ![p] = ""]
    /\ app_state' = [app_state EXCEPT
                         !["backend_running"] = Repr(health_result(outcome).val)]
    /\ Finish(p, health_result(outcome).ok, health_result(outcome).val)
    /\ UNCHANGED <<fs, stdout, window, mutex, started>>

\* check_backend_health from `.await` on: the GET has come to `outcome`.
check_backend_health_resume(p, outcome) ==
    /\ pc[p] = "http_wait"
    /\ http' = [http EXCEPT ![p] = ""]
    /\ Finish(p, health_result(outcome).ok, health_result(outcome).val)
    /\ UNCHANGED <<fs, stdout, window, store>>

open_project_file(p) ==
    /\ Respond(p, "open_project_file", TRUE, "")
    /\ UNCHANGED <<store, env>>

\* std::fs::write(path, bytes) on the files, coming to `outcome`.  A write
\* that fails after the file was created or truncated leaves a strict prefix
\* of the bytes; the empty file stands for every such prefix.
fs_write(files, path, bytes, outcome) ==
    CASE outcome = "ok" -> [files EXCEPT ![path] = File(bytes)]
      [] outcome = "open_failed" -> files
      [] outcome = "write_failed" -> [files EXCEPT ![path] = File("")]

\* The io::Error of a failed fs::write, as `{}` formats it.
io_error(outcome) ==
    IF outcome = "open_failed"
    THEN "Permission denied (os error 13)"
    ELSE "No space left on device (os error 28)"

\* A save that writes the content with a line end added.
save_project_file_Reformats(p, path, content, outcome) ==
    /\ pc[p] = "idle"
    /\ fs' = fs_write(fs, path, content \o "\n", outcome)
    /\ IF outcome = "ok"
       THEN /\ pc' = [pc EXCEPT ![p] = "set_lock"]
            /\ fld' = [fld EXCEPT ![p] = "last_project_path"]
            /\ arg' = [arg EXCEPT ![p] = Some(path)]
            /\ call' = [call EXCEPT ![p] = Pending("save_project_file")]
            /\ started' = [started EXCEPT !["last_project_path"] =
                               @ \cup {Repr(Some(path))}]
       ELSE /\ call' = [call EXCEPT ![p] =
                           Returned("save_project_file", FALSE,
                                    "Failed to save project file: " \o io_error(outcome))]
            /\ UNCHANGED <<pc, fld, arg, started>>
    /\ UNCHANGED <<stdout, window, http, app_state, mutex>>

\* A save that drops the Result of fs::write (no `?`) and goes on.
save_project_file_IgnoresError(p, path, content, outcome) ==
    /\ pc[p] = "idle"
    /\ fs' = fs_write(fs, path, content, outcome)
    /\ pc' = [pc EXCEPT ![p] = "set_lock"]
    /\ fld' = [fld EXCEPT ![p] = "last_project_path"]
    /\ arg' = [arg EXCEPT ![p] = Some(path)]
    /\ call' = [call EXCEPT ![p] = Pending("save_project_file")]
    /\ started' = [started EXCEPT !["last_project_path"] =
                       @ \cup {Repr(Some(path))}]
    /\ UNCHANGED <<stdout, window, http, app_state, mutex>>

\* save_project_file: fs::write, `?`, and the entry into
\* set_last_project_path(Some(path)), whose steps are SetLock and SetWrite.
save_project_file(p, path, content, outcome) ==
    /\ pc[p] = "idle"
    /\ fs' = fs_write(fs, path, content, outcome)
    /\ IF outcome = "ok"
       THEN /\ pc' = [pc EXCEPT ![p] = "set_lock"]
            /\ fld' = [fld EXCEPT ![p] = "last_project_path"]
            /\ arg' = [arg EXCEPT ![p] = Some(path)]
            /\ call' = [call EXCEPT ![p] = Pending("save_project_file")]
            /\ started' = [started EXCEPT !["last_project_path"] =
                               @ \cup {Repr(Some(path))}]
       ELSE /\ call' = [call EXCEPT ![p] =
                           Returned("save_project_file", FALSE,
                                    "Failed to save project file: " \o io_error(outcome))]
            /\ UNCHANGED <<pc, fld, arg, started>>
    /\ UNCHANGED <<stdout, window, http, app_state, mutex>>

\* An export that converts for the one format it knows.
exported_bytes_Converted(format, audio_data) ==
    IF format = "mp3" THEN "ID3" \o audio_data ELSE audio_data

\* The bytes export_audio writes for a format tag: the raw audio data.
exported_bytes(format, audio_data) == audio_data

export_audio(p, format, path, audio_data, outcome) ==
    /\ pc[p] = "idle"
    /\ fs' = fs_write(fs, path, exported_bytes(format, audio_data), outcome)
    /\ IF outcome = "ok"
       THEN /\ stdout' = <<path, format>>
            /\ call' = [call EXCEPT ![p] = Returned("export_audio", TRUE, Unit)]
       ELSE /\ call' = [call EXCEPT ![p] =
                           Returned("export_audio", FALSE,
                                    "Failed to export audio: " \o io_error(outcome))]
            /\ UNCHANGED stdout
    /\ UNCHANGED <<pc, fld, arg, window, http, store>>

get_app_info(p) ==
    /\ Respond(p, "get_app_info", TRUE, AppInfo)
    /\ UNCHANGED <<store, env>>

\* What window.show() and window.set_focus() can come to.
WindowOutcomes == {"ok", "show_failed", "focus_failed"}

show_main_window(p, outcome) ==
    /\ window' =
           CASE outcome = "ok" -> [visible |-> TRUE, focused |-> TRUE]
             [] outcome = "show_failed" -> window
             [] outcome = "focus_failed" -> [window EXCEPT !.visible = TRUE]
    /\ Respond(p, "show_main_window", outcome = "ok",
               IF outcome = "ok" THEN "" ELSE outcome)
    /\ UNCHANGED <<fs, stdout, http, store>>

\* ------------------------------------------------------------- lib.rs

\* The commands lib.rs registers, invoked by any number of callers at once.
\* SetLock and SetWrite are the steps of the set_last_project_path that
\* save_project_file calls.
Next ==
    \E p \in Procs :
        \/ ping(p)
        \/ check_backend_health(p)
        \/ \E outcome \in HttpOutcomes : check_backend_health_resume(p, outcome)
        \/ open_project_file(p)
        \/ \E outcome \in FsOutcomes :
               save_project_file(p, AppPath, AppContent, outcome)
        \/ \E outcome \in FsOutcomes :
               export_audio(p, AppFormat, AppPath, AppAudio, outcome)
        \/ get_app_info(p)
        \/ \E outcome \in WindowOutcomes : show_main_window(p, outcome)
        \/ SetLock(p)
        \/ SetWrite(p)

Spec == Init /\ [][Next]_vars

\* ------------------------------------------------------------- other callers

\* The session state store called directly, by any number of callers.
NextStore ==
    \E p \in Procs :
        \/ \E url \in Urls : set_backend_url(p, url)
        \/ get_backend_url(p)
        \/ \E running \in BOOLEAN : set_backend_running(p, running)
        \/ is_backend_running(p)
        \/ \E path \in StorePaths : set_last_project_path(p, path)
        \/ get_last_project_path(p)
        \/ StoreStep(p)

SpecStore == Init /\ [][NextStore]_vars

\* A thread panics while it holds the guard of field f (the Mutex fields are
\* pub): the mutex is poisoned from then on.
Poison(f) ==
    /\ Available(f)
    /\ ~mutex[f].poisoned
    /\ mutex' = [mutex EXCEPT ![f].poisoned = TRUE]
    /\ UNCHANGED <<app_state, started, pc, fld, arg, call, env>>

\* The store with mutexes that may get poisoned; the setters are given the
\* values that differ from what AppState::new stores.
NextPoison ==
    \/ \E p \in Procs :
        \/ set_backend_url(p, OtherUrl)
        \/ get_backend_url(p)
        \/ set_backend_running(p, TRUE)
        \/ is_backend_running(p)
        \/ set_last_project_path(p, Some(AppPath))
        \/ get_last_project_path(p)
        \/ StoreStep(p)
    \/ \E f \in Fields : Poison(f)

SpecPoison == Init /\ [][NextPoison]_vars

\* The backend URL of the session and the health check.
NextBackend ==
    \E p \in Procs :
        \/ \E url \in Urls : set_backend_url(p, url)
        \/ get_backend_url(p)
        \/ check_backend_health(p)
        \/ \E outcome \in HttpOutcomes : check_backend_health_resume(p, outcome)
        \/ StoreStep(p)

SpecBackend == Init /\ [][NextBackend]_vars

\* Saving projects and reading the last project path.
NextSave ==
    \E p \in Procs :
        \/ \E path \in Paths, content \in Contents, outcome \in FsOutcomes :
               save_project_file(p, path, content, outcome)
        \/ get_last_project_path(p)
        \/ StoreStep(p)

SpecSave == Init /\ [][NextSave]_vars

\* The same with audio exported over one of the project files.
NextProject ==
    \/ NextSave
    \/ \E p \in Procs : export_audio(p, AppFormat, AppPath, AppAudio, "ok")

SpecProject == Init /\ [][NextProject]_vars

\* Audio exports alone, with every format tag.
NextExport ==
    \E p \in Procs :
        \E format \in Formats, path \in Paths, audio_data \in AudioData,
           outcome \in FsOutcomes :
            export_audio(p, format, path, audio_data, outcome)

SpecExport == Init /\ [][NextExport]_vars

\* The same under the scheduling the runtime gives: a call that can take a
\* step of its own takes it.  The answer to a GET is the backend's to give,
\* and the client built by reqwest::get has no timeout, so nothing makes
\* check_backend_health_resume happen.
SpecBackendLive ==
    /\ Init
    /\ [][NextBackend]_vars
    /\ \A p \in Procs : WF_vars(StoreStep(p))

\* ------------------------------------------------------------- properties

PathA == "/p/a.json"

\* Both words of a cell belong to one value.
Complete(cell) == cell[1] = cell[2]

\* Caller p takes the step it has at position `at`.
Steps(p, at) == pc[p] = at /\ pc'[p] # at

\* Caller p, idle, invokes or runs command c in this step.
Invokes(p, c) == pc[p] = "idle" /\ call'[p] # call[p] /\ call'[p].cmd = c

\* No caller but p, which is idle, moves in this step.
AloneFromIdle(p) ==
    /\ pc[p] = "idle"
    /\ \A q \in Procs \ {p} : pc'[q] = pc[q] /\ call'[q] = call[q]

\* The field a getter reads.
FieldOf(c) ==
    CASE c = "get_backend_url" -> "backend_url"
      [] c = "is_backend_running" -> "backend_running"
      [] c = "get_last_project_path" -> "last_project_path"

Getters == {"get_backend_url", "is_backend_running", "get_last_project_path"}

\* C1, as claimed: once a save has returned Ok, leaving its content in the
\* file and its path as the last project path, the file changes only by a
\* later successful save, and the last project path only by a save.
C1_OnlyASaveOverwrites ==
    [][/\ \A path \in Paths :
              (/\ \E c \in Contents : fs[path] = File(c)
               /\ app_state.last_project_path = Repr(Some(path))
               /\ fs'[path] # fs[path])
                  => \E p \in Procs :
                         /\ Invokes(p, "save_project_file")
                         /\ pc'[p] = "set_lock"
                         /\ arg'[p] = Some(path)
       /\ app_state'.last_project_path # app_state.last_project_path
              => \E p \in Procs :
                     /\ call[p].cmd = "save_project_file"
                     /\ Steps(p, "set_lock") \/ Steps(p, "set_write")]_vars

\* C1, amended: a successful save_project_file(path, content) makes the file
\* at path hold exactly content and then stores Some(path) as the last project
\* path before it returns Ok; get_last_project_path returns what is stored; a
\* file changes only by the fs::write of a save_project_file or an
\* export_audio on its path, and the last project path only by a
\* save_project_file whose write succeeded.
C1_SaveWritesAndRecords ==
    [][/\ \A p \in Procs :
              AloneFromIdle(p)
                  => \A path \in Paths, content \in Contents :
                         save_project_file(p, path, content, "ok")
                             => /\ fs'[path] = File(content)
                                /\ pc'[p] = "set_lock"
                                /\ arg'[p] = Some(path)
       /\ \A p \in Procs :
              (call[p].cmd = "save_project_file" /\ Steps(p, "set_write"))
                  => /\ call'[p] = Returned("save_project_file", TRUE, Unit)
                     /\ app_state'.last_project_path = Repr(arg[p])
       /\ \A p \in Procs :
              (call[p].cmd = "get_last_project_path" /\ Steps(p, "get_lock"))
                  => /\ call'[p] = Returned("get_last_project_path", TRUE,
                                            app_state.last_project_path)
                     /\ Complete(app_state.last_project_path)
       /\ \A path \in Paths :
              fs'[path] # fs[path]
                  => \E p \in Procs :
                         /\ AloneFromIdle(p)
                         /\ \E outcome \in FsOutcomes :
                                \/ \E content \in Contents :
                                       save_project_file(p, path, content, outcome)
                                \/ \E format \in Formats, audio_data \in AudioData :
                                       export_audio(p, format, path, audio_data,
                                                    outcome)
       /\ app_state'.last_project_path # app_state.last_project_path
              => \E p \in Procs :
                     /\ call[p].cmd = "save_project_file"
                     /\ Steps(p, "set_lock") \/ Steps(p, "set_write")]_vars

\* C1, witness: one caller's save of c1 to /p/a.json has returned Ok and
\* another caller's get_last_project_path has returned that path.
C1_Witness ==
    \E p, q \in Procs :
        /\ call[p] = Returned("save_project_file", TRUE, Unit)
        /\ call[q] = Returned("get_last_project_path", TRUE, Repr(Some(PathA)))
        /\ fs[PathA] = File("c1")

\* C2: a save_project_file whose fs::write fails returns Err in that step
\* and leaves the last project path as it was.
C2_FailedSaveKeepsLastPath ==
    [][\A p \in Procs :
           AloneFromIdle(p)
               => \A path \in Paths, content \in Contents,
                     outcome \in FsOutcomes \ {"ok"} :
                      save_project_file(p, path, content, outcome)
                          => /\ call'[p].cmd = "save_project_file"
                             /\ call'[p].status = "Err"
                             /\ pc'[p] = "idle"
                             /\ app_state' = app_state]_vars

\* C2, witness: a save has failed while the last project path holds the path
\* of an earlier save.
C2_Witness ==
    \E p \in Procs :
        /\ call[p].cmd = "save_project_file"
        /\ call[p].status = "Err"
        /\ app_state.last_project_path = Repr(Some(PathA))

\* C3: whatever the GET comes to, check_backend_health returns Ok: Ok(true)
\* exactly for a response with a 2xx status, Ok(false) otherwise.
C3_HealthNeverErrs ==
    [][\A p \in Procs, outcome \in HttpOutcomes :
           check_backend_health_resume(p, outcome)
               => call'[p] =
                      Returned("check_backend_health", TRUE,
                               /\ outcome.kind = "response"
                               /\ outcome.status \in 200..299)]_vars

\* C3, witness: one health check has returned Ok(true), another Ok(false).
C3_Witness ==
    \E p, q \in Procs :
        /\ call[p] = Returned("check_backend_health", TRUE, TRUE)
        /\ call[q] = Returned("check_backend_health", TRUE, FALSE)

\* C4, as claimed: a health check issued while backend_url holds u requests
\* u + "/health".
C4_ProbesSessionUrl ==
    [][\A p \in Procs :
           (/\ Invokes(p, "check_backend_health")
            /\ Available("backend_url")
            /\ Complete(app_state.backend_url))
               => http'[p] = app_state.backend_url[1] \o "/health"]_vars

\* C5: a getter returns a complete value, the field's initial one or one
\* passed to a setter call that has started; and a call waits only for the
\* guard of its own field.
C5_NoTornNoCrossBlocking ==
    /\ \A p \in Procs :
           (call[p].status = "Ok" /\ call[p].cmd \in Getters)
               => /\ Complete(call[p].val)
                  /\ \/ call[p].val = AppState_new[FieldOf(call[p].cmd)]
                     \/ call[p].val \in started[FieldOf(call[p].cmd)]
    /\ \A p \in Procs :
           (pc[p] \in {"set_lock", "set_write", "get_lock"}
                /\ mutex[fld[p]].owner \in {0, p})
               => ENABLED StoreStep(p)

\* C5, witness: a getter has returned the URL a setter stored while another
\* setter of the same field is between its two words.
C5_Witness ==
    \E p, q \in Procs :
        /\ call[p] = Returned("get_backend_url", TRUE, Repr(OtherUrl))
        /\ pc[q] = "set_write"
        /\ fld[q] = "backend_url"
        /\ ~Complete(app_state.backend_url)

\* C6: on a poisoned mutex a getter returns Ok with its default
\* ("http://127.0.0.1:8765", false, None) and a setter returns Ok with the
\* store unchanged; on a mutex that is not poisoned a getter returns what is
\* stored and a setter stores its argument.
C6_PoisonedGuardDegrades ==
    [][\A p \in Procs :
           /\ (Steps(p, "get_lock") /\ mutex[fld[p]].poisoned)
                  => /\ pc'[p] = "idle"
                     /\ call'[p].status = "Ok"
                     /\ call'[p].val =
                            CASE fld[p] = "backend_url" -> Repr("http://127.0.0.1:8765")
                              [] fld[p] = "backend_running" -> Repr(FALSE)
                              [] fld[p] = "last_project_path" -> Repr(None)
                     /\ app_state' = app_state
           /\ (Steps(p, "set_lock") /\ mutex[fld[p]].poisoned)
                  => /\ pc'[p] = "idle"
                     /\ call'[p].status = "Ok"
                     /\ app_state' = app_state
           /\ (Steps(p, "get_lock") /\ ~mutex[fld[p]].poisoned)
                  => /\ call'[p].status = "Ok"
                     /\ call'[p].val = app_state[fld[p]]
           /\ (Steps(p, "set_write") /\ ~mutex[fld[p]].poisoned)
                  => /\ call'[p].status = "Ok"
                     /\ app_state'[fld[p]] = Repr(arg[p])]_vars

\* C6, witness: with backend_url's mutex poisoned over a stored URL that is
\* not the default, get_backend_url has returned the default, while
\* is_backend_running, whose mutex is sound, has returned the stored true.
C6_Witness ==
    \E p, q \in Procs :
        /\ mutex["backend_url"].poisoned
        /\ app_state.backend_url = Repr(OtherUrl)
        /\ call[p] = Returned("get_backend_url", TRUE, Repr(DefaultUrl))
        /\ ~mutex["backend_running"].poisoned
        /\ call[q] = Returned("is_backend_running", TRUE, Repr(TRUE))

\* C7: backend_url holds the default at first; a set_backend_url(u) that
\* completes leaves u stored; the stored URL changes only in a step of a
\* set_backend_url; and get_backend_url returns what is stored.
C7_UrlRoundTrip ==
    /\ app_state.backend_url = Repr("http://127.0.0.1:8765")
    /\ [][/\ \A p \in Procs :
                 (fld[p] = "backend_url" /\ Steps(p, "set_write"))
                     => app_state'.backend_url = Repr(arg[p])
          /\ app_state'.backend_url # app_state.backend_url
                 => \E p \in Procs :
                        /\ call[p].cmd = "set_backend_url"
                        /\ Steps(p, "set_lock") \/ Steps(p, "set_write")
          /\ \A p \in Procs :
                 (fld[p] = "backend_url" /\ Steps(p, "get_lock"))
                     => /\ Complete(app_state.backend_url)
                        /\ call'[p] = Returned("get_backend_url", TRUE,
                                               app_state.backend_url)]_vars

\* C7, witness: get_backend_url has returned a URL that was set.
C7_Witness ==
    \E p \in Procs :
        /\ call[p] = Returned("get_backend_url", TRUE, Repr(OtherUrl))
        /\ app_state.backend_url = Repr(OtherUrl)

\* C8: a successful export_audio leaves exactly the audio data in the file,
\* and the files and the Ok or Err it returns are what they would be for any
\* other format tag.
C8_FormatIsInert ==
    [][\A p \in Procs :
           AloneFromIdle(p)
               => \A format \in Formats, path \in Paths,
                     audio_data \in AudioData, outcome \in FsOutcomes :
                      export_audio(p, format, path, audio_data, outcome)
                          => /\ outcome = "ok" => fs'[path] = File(audio_data)
                             /\ call'[p].status =
                                    IF outcome = "ok" THEN "Ok" ELSE "Err"
                             /\ \A other \in Formats :
                                    fs' = fs_write(fs, path,
                                                   exported_bytes(other, audio_data),
                                                   outcome)]_vars

\* C8, witness: an export with a format tag nobody knows has returned Ok and
\* the file holds the audio data.
C8_Witness ==
    \E p \in Procs :
        /\ call[p] = Returned("export_audio", TRUE, Unit)
        /\ stdout = <<PathA, "xyz">>
        /\ fs[PathA] = File("a2")

\* C9, as claimed: a health check whose GET is in flight returns.
C9_HealthCheckReturns ==
    \A p \in Procs : (pc[p] = "http_wait") ~> (pc[p] # "http_wait")

\* C10: under the seven registered commands backend_url stays the default
\* and backend_running stays false, and the last project path changes only
\* in a step of save_project_file.
C10_CommandsLeaveBackendFields ==
    /\ [](/\ app_state.backend_url = Repr("http://127.0.0.1:8765")
          /\ app_state.backend_running = Repr(FALSE))
    /\ [][app_state'.last_project_path # app_state.last_project_path
              => \E p \in Procs :
                     /\ call[p].cmd = "save_project_file"
                     /\ Steps(p, "set_lock") \/ Steps(p, "set_write")]_vars

\* C10, witness: a health check has returned Ok(true), a save has stored its
\* path, and backend_running is still false.
C10_Witness ==
    \E p \in Procs :
        /\ call[p] = Returned("check_backend_health", TRUE, TRUE)
        /\ app_state.last_project_path = Repr(Some(AppPath))
        /\ app_state.backend_running = Repr(FALSE)

=============================================================================
